---- MODULE Spec2Model ----
(***************************************************************************)
(* Model of the lucidia-platform web front end:                            *)
(*   - web/app/pricing/page.tsx   PricingPage (plans, billing toggle,      *)
(*                                handleCheckout, filteredPlans)           *)
(*   - web/app/page.tsx           LandingPage (email input, anchors,       *)
(*                                buttons, pricing section)                *)
(*   - web/next.config.js         the /api rewrite rule                    *)
(*   - README.md                  the pricing table                        *)
(*                                                                         *)
(* Strings the code inspects character by character (plan ids, searched    *)
(* with String.prototype.includes) are sequences of one-character strings. *)
(* URLs are sequences of tokens, concatenated with \o.  Prices are integer *)
(* cents.  A nullable value is a sequence of length 0 (null / undefined)   *)
(* or 1 (the value).                                                       *)
(***************************************************************************)
EXTENDS Integers, Sequences, FiniteSets, TLC

VARIABLES
    \* ---- PricingPage (web/app/pricing/page.tsx)
    plans,            \* the module-level plans array
    loading,          \* useState<string | null>(null)
    billingInterval,  \* useState<'month' | 'year'>('month')
    href,             \* window.location.href of the pricing document
    freeClicks,       \* number of clicks on the free plan's button so far
    paidClicks,       \* number of clicks on a paid plan's button so far
    callCount,        \* number of redirectToCheckout invocations so far
    lastCall,         \* arguments of the latest redirectToCheckout invocation, nullable
    inv,              \* handleCheckout invocations that passed the free check;
                      \* a finished one keeps its outcome and drops its arguments
    alerts,           \* number of alert() dialogs shown so far
    consoleErrors,    \* number of console.error lines written so far
    alertOpen,        \* 0, or the index in inv of the invocation blocked in alert()
    now,              \* Date.now()
    \* ---- LandingPage (web/app/page.tsx)
    email,            \* useState('')
    landingHref,      \* navigation target of the landing document
    event,            \* the UI event last dispatched on the landing page
    requests,         \* values the landing page transmitted or persisted
    \* ---- next.config.js
    API_URL,          \* process.env.API_URL
    request,          \* the last request path (a sequence of segments), nullable
    response          \* what the rewrite rule made of it

pricingVars == <<plans, loading, billingInterval, href, freeClicks, paidClicks,
                 callCount, lastCall, inv,
                 alerts, consoleErrors, alertOpen, now>>
landingVars == <<email, landingHref, event, requests>>
rewriteVars == <<API_URL, request, response>>
vars == <<pricingVars, landingVars, rewriteVars>>

\* ---- bounds of the model
MaxClicks == 3
MaxClock == 1
MaxSegments == 3

\* ---- nullable values
Null == <<>>
Some(x) == <<x>>

\* ---- String.prototype.includes on character sequences
includes(s, needle) ==
    \E i \in 0..(Len(s) - Len(needle)) : SubSeq(s, i + 1, i + Len(needle)) = needle

free == <<"f","r","e","e">>
student_monthly == <<"s","t","u","d","e","n","t","_","m","o","n","t","h","l","y">>
student_yearly == <<"s","t","u","d","e","n","t","_","y","e","a","r","l","y">>
family_monthly == <<"f","a","m","i","l","y","_","m","o","n","t","h","l","y">>
family_yearly == <<"f","a","m","i","l","y","_","y","e","a","r","l","y">>
monthly == <<"m","o","n","t","h","l","y">>
yearly == <<"y","e","a","r","l","y">>

\* the savings labels, character by character
save20 == <<"S","a","v","e"," ","$","2","0","/","y","e","a","r">>
save40 == <<"S","a","v","e"," ","$","4","0","/","y","e","a","r">>

\* The records of the plans array (prices in integer cents: 9.99 is 999).
freePlan ==
    [id |-> free, name |-> "Free", price |-> 0, interval |-> Null,
     description |-> "Perfect for trying it out",
     features |-> <<"10 problems/month", "Basic explanations", "Text input only">>,
     popular |-> Null, savings |-> Null,
     cta |-> "Get Started", href |-> Some("/signup")]

studentMonthlyPlan ==
    [id |-> student_monthly, name |-> "Student", price |-> 999,
     interval |-> Some("month"),
     description |-> "Everything you need to succeed",
     features |-> <<"Unlimited problems", "Visual explanations",
                    "Photo & voice upload", "Persistent memory", "All subjects",
                    "7-day free trial">>,
     popular |-> Some(TRUE), savings |-> Null,
     cta |-> "Start Free Trial", href |-> Null]

studentYearlyPlan ==
    [id |-> student_yearly, name |-> "Student Annual", price |-> 9999,
     interval |-> Some("year"),
     description |-> "Best value for committed learners",
     features |-> <<"Everything in Student Monthly", "2 months free",
                    "Priority support">>,
     popular |-> Null, savings |-> Some(save20),
     cta |-> "Start Free Trial", href |-> Null]

familyMonthlyPlan ==
    [id |-> family_monthly, name |-> "Family", price |-> 1999,
     interval |-> Some("month"),
     description |-> "For the whole household",
     features |-> <<"Up to 5 users", "Everything in Student", "Parent dashboard",
                    "Progress tracking", "Priority support", "7-day free trial">>,
     popular |-> Null, savings |-> Null,
     cta |-> "Start Free Trial", href |-> Null]

familyYearlyPlan ==
    [id |-> family_yearly, name |-> "Family Annual", price |-> 19999,
     interval |-> Some("year"),
     description |-> "Best value for families",
     features |-> <<"Everything in Family Monthly", "2 months free",
                    "Dedicated support">>,
     popular |-> Null, savings |-> Some(save40),
     cta |-> "Start Free Trial", href |-> Null]

\* The plans array with the Student price mistyped.
PlansLiteral_StudentPrice ==
    <<freePlan, [studentMonthlyPlan EXCEPT !.price = 899], studentYearlyPlan,
      familyMonthlyPlan, familyYearlyPlan>>

\* The plans array with the Family Annual record copied from the monthly one
\* and its interval left at 'month'.
PlansLiteral_WrongInterval ==
    <<freePlan, studentMonthlyPlan, studentYearlyPlan, familyMonthlyPlan,
      [familyYearlyPlan EXCEPT !.interval = Some("month")]>>

\* const plans = [ ... ]
PlansLiteral ==
    <<freePlan, studentMonthlyPlan, studentYearlyPlan, familyMonthlyPlan,
      familyYearlyPlan>>

\* The filter callback without its first line (the free plan is not kept).
PlanFilter_NoFree(plan, interval) ==
    IF interval = "month" THEN includes(plan.id, monthly)
    ELSE includes(plan.id, yearly)

\* plans.filter(plan => { ... }) : the callback
PlanFilter(plan, interval) ==
    IF plan.id = free THEN TRUE
    ELSE IF interval = "month" THEN includes(plan.id, monthly)
    ELSE includes(plan.id, yearly)

RECURSIVE Reverse(_)
Reverse(q) == IF q = <<>> THEN <<>> ELSE Append(Reverse(Tail(q)), Head(q))

\* The filtered list built by prepending each kept plan.
FilterPlans_Reversed(ps, interval) ==
    Reverse(SelectSeq(ps, LAMBDA plan : PlanFilter(plan, interval)))

\* Array.prototype.filter: a new array, in the order of the source array
FilterPlans(ps, interval) == SelectSeq(ps, LAMBDA plan : PlanFilter(plan, interval))

\* const filteredPlans = plans.filter(...)   (recomputed at every render)
filteredPlans == FilterPlans(plans, billingInterval)

Range(s) == {s[i] : i \in 1..Len(s)}
IdSet(ps) == {p.id : p \in Range(ps)}

\* The user id computed once when the module loads (clock 0).
UserId_Stale(t) == <<"user_", 0>>

\* `user_${Date.now()}`: the prefix and the clock value
UserId(t) == <<"user_", t>>

\* The cards rendered from plans instead of filteredPlans.
ButtonEnabled_AllPlans(planId) ==
    /\ alertOpen = 0
    /\ planId \in IdSet(plans)
    /\ loading # Some(planId)

\* A subscribe button is rendered for each plan of filteredPlans and is
\* disabled while loading === plan.id; alert() blocks the event loop.  The
\* document keeps handling events after a navigation target is set: the
\* model does not bound the time until the browser leaves the page.
ButtonEnabled(planId) ==
    /\ alertOpen = 0
    /\ planId \in IdSet(filteredPlans)
    /\ loading # Some(planId)

NewInvocation(planId) ==
    [planId |-> Some(planId), pc |-> "await", outcome |-> "pending",
     alerted |-> 0, result |-> "pending"]

PricingInit ==
    /\ plans = PlansLiteral
    /\ loading = Null
    /\ billingInterval = "month"
    /\ href = "/pricing"
    /\ freeClicks = 0
    /\ paidClicks = 0
    /\ callCount = 0
    /\ lastCall = Null
    /\ inv = <<>>
    /\ alerts = 0
    /\ consoleErrors = 0
    /\ alertOpen = 0
    /\ now = 0

PlanIds == IdSet(PlansLiteral)
PaidIds == PlanIds \ {free}

\* The toggle written with an in-place filter: plans itself is narrowed.
SetBillingInterval_InPlace(b) ==
    /\ billingInterval' = b
    /\ plans' = FilterPlans(plans, b)
    /\ UNCHANGED <<loading, href, callCount, lastCall, inv, alerts, consoleErrors,
                   alertOpen, now>>

\* The toggle also clearing the loading indicator.
SetBillingInterval_ResetLoading(b) ==
    /\ billingInterval' = b
    /\ loading' = Null
    /\ UNCHANGED <<plans, href, callCount, lastCall, inv, alerts, consoleErrors,
                   alertOpen, now>>

\* setBillingInterval('month') / setBillingInterval('year')
SetBillingInterval(b) ==
    /\ billingInterval' = b
    /\ UNCHANGED <<plans, loading, href, callCount, lastCall, inv, alerts, consoleErrors,
                   alertOpen, now>>

\* handleCheckout without the early return of the free branch.
HandleCheckout_NoReturn(planId) ==
    /\ href' = IF planId = free THEN "/signup" ELSE href
    /\ loading' = Some(planId)
    /\ callCount' = callCount + 1
    /\ lastCall' = Some([planId |-> planId, userId |-> UserId(now)])
    /\ inv' = Append(inv, NewInvocation(planId))
    /\ UNCHANGED <<plans, billingInterval, alerts, consoleErrors, alertOpen, now>>

\* handleCheckout(planId), up to its return (free) or its await (paid):
\* setLoading(planId), then redirectToCheckout(planId, `user_${Date.now()}`)
HandleCheckout(planId) ==
    IF planId = free
    THEN /\ href' = "/signup"
         /\ UNCHANGED <<plans, loading, billingInterval, callCount, lastCall, inv,
                        alerts, consoleErrors, alertOpen, now>>
    ELSE /\ loading' = Some(planId)
         /\ callCount' = callCount + 1
         /\ lastCall' = Some([planId |-> planId, userId |-> UserId(now)])
         /\ inv' = Append(inv, NewInvocation(planId))
         /\ UNCHANGED <<plans, billingInterval, href, alerts, consoleErrors,
                        alertOpen, now>>

\* the awaited call resolved: the try block ends, finally runs
\* (setLoading(null)), the async function returns
OnResolved(i) ==
    /\ inv' = [inv EXCEPT ![i].outcome = "resolved", ![i].pc = "done",
                          ![i].planId = Null, ![i].result = "fulfilled"]
    /\ loading' = Null
    /\ UNCHANGED <<plans, billingInterval, href, callCount, lastCall, alerts,
                   consoleErrors, alertOpen, now>>

\* handleCheckout with try/finally and no catch: the rejection propagates.
OnRejected_NoCatch(i) ==
    /\ inv' = [inv EXCEPT ![i].outcome = "rejected", ![i].pc = "done",
                          ![i].planId = Null, ![i].result = "rejected"]
    /\ loading' = Null
    /\ UNCHANGED <<plans, billingInterval, href, callCount, lastCall, alerts,
                   consoleErrors, alertOpen, now>>

\* The catch block calling setLoading(null) before alert().
OnRejected_EarlyClear(i) ==
    /\ inv' = [inv EXCEPT ![i].outcome = "rejected", ![i].pc = "alert",
                          ![i].alerted = @ + 1]
    /\ consoleErrors' = consoleErrors + 1
    /\ alerts' = alerts + 1
    /\ alertOpen' = i
    /\ loading' = Null
    /\ UNCHANGED <<plans, billingInterval, href, callCount, lastCall, now>>

\* the awaited call rejected: catch runs console.error and alert(), which
\* blocks until the dialog is dismissed
OnRejected(i) ==
    /\ inv' = [inv EXCEPT ![i].outcome = "rejected", ![i].pc = "alert",
                          ![i].alerted = @ + 1]
    /\ consoleErrors' = consoleErrors + 1
    /\ alerts' = alerts + 1
    /\ alertOpen' = i
    /\ UNCHANGED <<plans, loading, billingInterval, href, callCount, lastCall, now>>

\* setLoading(null) written at the end of the try block instead of in finally.
OnAlertReturn_NoFinally(i) ==
    /\ inv' = [inv EXCEPT ![i].pc = "done", ![i].planId = Null,
                          ![i].result = "fulfilled"]
    /\ alertOpen' = 0
    /\ UNCHANGED <<plans, loading, billingInterval, href, callCount, lastCall,
                   alerts, consoleErrors, now>>

\* The catch block re-issuing the call after the dialog.
OnAlertReturn_Retry(i) ==
    /\ inv' = [inv EXCEPT ![i].pc = "await", ![i].outcome = "pending"]
    /\ callCount' = callCount + 1
    /\ lastCall' = Some([planId |-> inv[i].planId[1], userId |-> UserId(now)])
    /\ alertOpen' = 0
    /\ UNCHANGED <<plans, loading, billingInterval, href, alerts, consoleErrors, now>>

\* alert() returned: the catch block ends, finally runs (setLoading(null)),
\* the async function returns
OnAlertReturn(i) ==
    /\ inv' = [inv EXCEPT ![i].pc = "done", ![i].planId = Null,
                          ![i].result = "fulfilled"]
    /\ loading' = Null
    /\ alertOpen' = 0
    /\ UNCHANGED <<plans, billingInterval, href, callCount, lastCall, alerts,
                   consoleErrors, now>>

\* ---- the events of the pricing page
\* onClick={() => setBillingInterval(...)} of the Monthly / Annual buttons
ClickBilling(b) ==
    /\ alertOpen = 0
    /\ SetBillingInterval(b)
    /\ UNCHANGED <<freeClicks, paidClicks, landingVars, rewriteVars>>

\* onClick={() => handleCheckout(plan.id)} of an enabled subscribe button
ClickSubscribe(planId) ==
    /\ freeClicks + paidClicks < MaxClicks
    /\ ButtonEnabled(planId)
    /\ freeClicks' = IF planId = free THEN freeClicks + 1 ELSE freeClicks
    /\ paidClicks' = IF planId = free THEN paidClicks ELSE paidClicks + 1
    /\ HandleCheckout(planId)
    /\ UNCHANGED <<landingVars, rewriteVars>>

\* the promise of redirectToCheckout is fulfilled
Resolve(i) ==
    /\ i \in DOMAIN inv
    /\ alertOpen = 0
    /\ inv[i].pc = "await"
    /\ OnResolved(i)
    /\ UNCHANGED <<freeClicks, paidClicks, landingVars, rewriteVars>>

\* the promise of redirectToCheckout is rejected (or the call threw)
Reject(i) ==
    /\ i \in DOMAIN inv
    /\ alertOpen = 0
    /\ inv[i].pc = "await"
    /\ OnRejected(i)
    /\ UNCHANGED <<freeClicks, paidClicks, landingVars, rewriteVars>>

\* the user dismisses the alert dialog
DismissAlert(i) ==
    /\ i \in DOMAIN inv
    /\ alertOpen = i
    /\ inv[i].pc = "alert"
    /\ OnAlertReturn(i)
    /\ UNCHANGED <<freeClicks, paidClicks, landingVars, rewriteVars>>

\* the clock read by Date.now() advances
Tick ==
    /\ now < MaxClock
    /\ now' = now + 1
    /\ UNCHANGED <<plans, loading, billingInterval, href, freeClicks, paidClicks,
                   callCount, lastCall, inv, alerts, consoleErrors, alertOpen, landingVars,
                   rewriteVars>>

PricingNext ==
    \/ \E b \in {"month", "year"} : ClickBilling(b)
    \/ \E planId \in PlanIds : ClickSubscribe(planId)
    \/ \E i \in DOMAIN inv : Resolve(i)
    \/ \E i \in DOMAIN inv : Reject(i)
    \/ \E i \in DOMAIN inv : DismissAlert(i)
    \/ Tick

\* ======================= LandingPage (web/app/page.tsx) ==================
\* the href literals of the page's <a> elements
AnchorHrefs ==
    {"#features", "#pricing", "#demo", "/login", "/signup",
     "/signup?plan=student", "/signup?plan=family", "/contact", "/privacy",
     "/terms"}

\* the labels of the page's <button> elements; none has an onClick and none
\* sits inside a <form>
ButtonLabels == {"Photo", "Voice", "Type", "Get Started Free"}

\* values typed into the email input
TypedValues == {"", "a", "a@b.co", "x@y.z"}

LandingInit ==
    /\ email = ""
    /\ landingHref = "/"
    /\ event = [target |-> "none", value |-> ""]
    /\ requests = <<>>

\* onChange={(e) => setEmail(e.target.value)}
OnChange(value) ==
    /\ email' = value
    /\ UNCHANGED <<landingHref, requests>>

\* The Get Started Free button wired to submit the captured address.
OnButtonClick_Submit(label) ==
    /\ requests' = IF label = "Get Started Free" THEN Append(requests, email)
                   ELSE requests
    /\ UNCHANGED <<email, landingHref>>

\* a <button> with no handler: the click does nothing
OnButtonClick(label) ==
    UNCHANGED <<email, landingHref, requests>>

\* an <a href=...>: the browser navigates to the literal href
OnAnchorClick(h) ==
    /\ landingHref' = h
    /\ UNCHANGED <<email, requests>>

TypeEmail(value) ==
    /\ event' = [target |-> "input", value |-> value]
    /\ OnChange(value)
    /\ UNCHANGED <<pricingVars, rewriteVars>>

ClickButton(label) ==
    /\ event' = [target |-> "button", value |-> label]
    /\ OnButtonClick(label)
    /\ UNCHANGED <<pricingVars, rewriteVars>>

ClickAnchor(h) ==
    /\ event' = [target |-> "anchor", value |-> h]
    /\ OnAnchorClick(h)
    /\ UNCHANGED <<pricingVars, rewriteVars>>

LandingNext ==
    \/ \E value \in TypedValues : TypeEmail(value)
    \/ \E label \in ButtonLabels : ClickButton(label)
    \/ \E h \in AnchorHrefs : ClickAnchor(h)

\* ======================= next.config.js ==================================
\* A URL or path is a sequence of tokens; "/x" is one path segment with its
\* leading slash and "/:path*" the zero-or-more-segments parameter.
PathParam == "/:path*"
DefaultDestination == <<"http://localhost:8000", "/api", PathParam>>
Segments == {"/api", "/users", "/v1"}
Paths == UNION {[1..n -> Segments] : n \in 0..MaxSegments}
EnvValues ==
    {Null, Some(<<>>), Some(<<"https://api.lucidia.ai">>),
     Some(<<"http://backend:9000">>),
     Some(<<"https://api.lucidia.ai", "/api", PathParam>>)}

\* the value is a bare origin (scheme and host, no path)
IsOrigin(v) == Len(v) = 1

\* JavaScript truthiness of process.env.X: undefined and '' are falsy
Truthy(v) == v # Null /\ v[1] # <<>>

\* a ?? b where the code has a || b
Or_Nullish(a, b) == IF a # Null THEN a[1] ELSE b

\* a || b
Or(a, b) == IF Truthy(a) THEN a[1] ELSE b

\* async rewrites() { return [ { source, destination } ] }
rewrites ==
    << [source |-> <<"/api", PathParam>>,
        destination |-> Or(API_URL, DefaultDestination)] >>

\* matching of a source pattern: literal tokens must agree, a trailing
\* "/:path*" captures the remaining segments (possibly none)
MatchSource(source, path) ==
    LET n == Len(source) - 1
    IN  IF /\ source[Len(source)] = PathParam
           /\ Len(path) >= n
           /\ SubSeq(path, 1, n) = SubSeq(source, 1, n)
        THEN Some(SubSeq(path, n + 1, Len(path)))
        ELSE Null

RECURSIVE Substitute(_, _)
Substitute(dest, captured) ==
    IF dest = <<>> THEN <<>>
    ELSE (IF Head(dest) = PathParam THEN captured ELSE <<Head(dest)>>)
         \o Substitute(Tail(dest), captured)

\* the destination with its parameters filled in; a destination that uses
\* no parameter receives the captured segments in the query string (the
\* tokens after "?path=" are the captured segments)
CompileDestination(dest, captured) ==
    IF PathParam \in Range(dest) THEN Substitute(dest, captured)
    ELSE IF captured = <<>> THEN dest
    ELSE dest \o <<"?path=">> \o captured

\* the rewritten URL of a request path, or Null when no rule matches
Rewrite(path) ==
    LET rule == rewrites[1]
        m == MatchSource(rule.source, path)
    IN  IF m = Null THEN Null
        ELSE Some(CompileDestination(rule.destination, m[1]))

RewriteIdle ==
    /\ API_URL = Null
    /\ request = Null
    /\ response = Null

RewriteInit ==
    /\ API_URL \in EnvValues
    /\ request = Null
    /\ response = Null

Request(path) ==
    /\ request' = Some(path)
    /\ response' = Rewrite(path)
    /\ UNCHANGED <<API_URL, pricingVars, landingVars>>

RewriteNext == \E path \in Paths : Request(path)

\* ======================= specifications ==================================
Init == PricingInit /\ LandingInit /\ RewriteIdle
Next == PricingNext
Spec == Init /\ [][Next]_vars

\* every redirectToCheckout call settles and every alert is dismissed
Fairness ==
    \A i \in 1..MaxClicks :
        /\ WF_vars(Resolve(i) \/ Reject(i))
        /\ WF_vars(DismissAlert(i))
LiveSpec == Init /\ [][Next]_vars /\ Fairness

LandingSpecInit == PricingInit /\ LandingInit /\ RewriteIdle
LandingSpec == LandingSpecInit /\ [][LandingNext]_vars

RewriteSpecInit == PricingInit /\ LandingInit /\ RewriteInit
RewriteSpec == RewriteSpecInit /\ [][RewriteNext]_vars

\* ======================= properties ======================================
HasSuffix(s, suffix) ==
    /\ Len(s) >= Len(suffix)
    /\ SubSeq(s, Len(s) - Len(suffix) + 1, Len(s)) = suffix

IntervalWord(b) == IF b = "month" THEN monthly ELSE yearly

\* C1: for the selected billing interval the rendered list holds exactly the
\* free plan and the plans whose id ends in the interval's word (monthly for
\* month, yearly for year): the three ids expected, none of the other
\* interval, none missing, and the same for the interval not selected.
C1_FilteredPlansExact ==
    /\ IdSet(filteredPlans)
         = {free} \cup {id \in IdSet(plans) : HasSuffix(id, IntervalWord(billingInterval))}
    /\ IdSet(FilterPlans(plans, "month")) = {free, student_monthly, family_monthly}
    /\ IdSet(FilterPlans(plans, "year")) = {free, student_yearly, family_yearly}

C1_Witness ==
    /\ billingInterval = "year"
    /\ IdSet(filteredPlans) = {free, student_yearly, family_yearly}
    /\ paidClicks > 0

\* C2: a click on the free plan's button sets the navigation target to /signup
\* and changes nothing else: no redirectToCheckout call, loading as it was, no
\* alert, no console line, no invocation left awaiting.
C2_FreeOnlyNavigates ==
    [][freeClicks' # freeClicks =>
          /\ href' = "/signup"
          /\ UNCHANGED <<plans, loading, billingInterval, paidClicks, callCount,
                         lastCall, inv, alerts, consoleErrors, alertOpen, now>>]_vars

C2_Witness ==
    /\ freeClicks > 0
    /\ href = "/signup"
    /\ loading # Null
    /\ callCount = 1

\* C3: under the fairness of LiveSpec (every call settles, every alert is
\* dismissed), whenever loading is a plan id p it eventually is not p.
C3_LoadingEventuallyClears ==
    \A p \in PaidIds : (loading = Some(p)) ~> (loading # Some(p))

C3_Witness ==
    /\ loading = Null
    /\ \E i \in DOMAIN inv : inv[i].outcome = "rejected" /\ inv[i].pc = "done"
    /\ \E i \in DOMAIN inv : inv[i].outcome = "resolved" /\ inv[i].pc = "done"

\* the request path is /api/<p> with a non-empty <p>
UnderApi(path) == Len(path) >= 2 /\ path[1] = "/api"

\* C4: with API_URL set to an origin U, a request for /api/<p> is rewritten
\* to U/api/<p>.
C4_RewriteKeepsApiPath ==
    (Truthy(API_URL) /\ IsOrigin(API_URL[1]) /\ request # Null /\ UnderApi(request[1]))
        => response = Some(API_URL[1] \o request[1])

\* C5: with API_URL unset or empty, a request for /api/<p> is rewritten to
\* http://localhost:8000/api/<p>, and a request whose path does not start
\* with /api is not rewritten.
C5_DefaultRewrite ==
    (~Truthy(API_URL) /\ request # Null) =>
        /\ UnderApi(request[1])
             => response = Some(<<"http://localhost:8000">> \o request[1])
        /\ (request[1] = <<>> \/ (request[1] # <<>> /\ request[1][1] # "/api"))
             => response = Null

C5_Witness ==
    /\ API_URL = Some(<<>>)
    /\ request = Some(<<"/api", "/users", "/v1">>)
    /\ response = Some(<<"http://localhost:8000", "/api", "/users", "/v1">>)

\* C6: every rejected call has shown exactly one alert, a resolved or pending
\* call none, the alerts shown are those of the rejected calls, and every
\* finished handleCheckout completed normally (its promise is fulfilled).
C6_RejectionCaughtAndAlerted ==
    /\ \A i \in DOMAIN inv :
          /\ inv[i].outcome = "rejected" => inv[i].alerted = 1
          /\ inv[i].outcome # "rejected" => inv[i].alerted = 0
          /\ inv[i].pc = "done" => inv[i].result = "fulfilled"
          /\ inv[i].result # "rejected"
    /\ alerts = Cardinality({i \in DOMAIN inv : inv[i].outcome = "rejected"})

C6_Witness ==
    /\ alerts = 1
    /\ \E i \in DOMAIN inv : inv[i].outcome = "rejected" /\ inv[i].result = "fulfilled"
    /\ \E i \in DOMAIN inv : inv[i].outcome = "resolved" /\ inv[i].result = "fulfilled"

\* C7: the number of redirectToCheckout invocations equals the number of
\* clicks on paid plans' buttons (so a rejected call is never issued again
\* without a new click), and each invocation of handleCheckout made one call.
C7_NoRetry ==
    /\ callCount = paidClicks
    /\ callCount = Len(inv)

C7_Witness ==
    /\ paidClicks = 2
    /\ callCount = 2
    /\ \E i \in DOMAIN inv : inv[i].outcome = "rejected" /\ inv[i].pc = "done"

\* C8: on the landing page email changes only on an input event and then
\* equals the typed value; a button click (Get Started Free included) changes
\* nothing; nothing is ever transmitted or persisted; the navigation target
\* changes only by an anchor click and is that anchor's literal href.
C8_EmailNeverUsed ==
    [][/\ requests' = requests
       /\ email' # email => event'.target = "input"
       /\ event'.target = "input" => email' = event'.value
       /\ event'.target = "button" => UNCHANGED <<email, landingHref, requests>>
       /\ landingHref' # landingHref =>
             /\ event'.target = "anchor"
             /\ landingHref' = event'.value
             /\ landingHref' \in AnchorHrefs]_vars

C8_Witness ==
    /\ email = "a@b.co"
    /\ event = [target |-> "button", value |-> "Get Started Free"]
    /\ requests = <<>>
    /\ landingHref = "/"

\* C9: the plans array is the literal of the module in every reachable state.
C9_PlansImmutable == plans = PlansLiteral

C9_Witness ==
    /\ billingInterval = "year"
    /\ freeClicks > 0
    /\ \E i \in DOMAIN inv : inv[i].pc = "done"
    /\ \E i \in DOMAIN inv : inv[i].pc = "await"

\* the README pricing table, prices in cents (its fourth row, School, is a
\* per-student range and no tier of the pages)
ReadmePricing ==
    {[plan |-> "Free", price |-> 0], [plan |-> "Student", price |-> 999],
     [plan |-> "Family", price |-> 1999]}

\* the landing page's pricing section, prices in cents
LandingPricing ==
    {[plan |-> "Free", price |-> 0], [plan |-> "Student", price |-> 999],
     [plan |-> "Family", price |-> 1999]}

\* what the pricing page shows: name and price of each rendered plan
ShownPricing == {[plan |-> p.name, price |-> p.price] : p \in Range(filteredPlans)}

\* C10: with the month interval selected the pricing page shows the Free,
\* Student and Family tiers at the prices of the README table and of the
\* landing page's pricing section ($0, $9.99, $19.99).
C10_PricesAgree ==
    billingInterval = "month" =>
        /\ ShownPricing = LandingPricing
        /\ ShownPricing = ReadmePricing

C10_Witness ==
    /\ billingInterval = "month"
    /\ callCount > 0
    /\ ShownPricing = ReadmePricing
    /\ {r.price : r \in ShownPricing} = {0, 999, 1999}

\* C11: whenever a redirectToCheckout call for plan p is outstanding,
\* loading equals p (the button of p is disabled), in every interleaving.
C11_OutstandingImpliesLoading ==
    \A i \in DOMAIN inv : inv[i].pc = "await" => loading = inv[i].planId

\* the handleCheckout invocations for planId that have not finished: the call
\* is outstanding or the failure alert is showing
Unfinished(planId) ==
    {i \in DOMAIN inv : inv[i].pc \in {"await", "alert"} /\ inv[i].planId = Some(planId)}

\* C12: loading is null or the id of a paid plan, never free, and when
\* loading is p some handleCheckout invocation for p has not finished, so
\* Processing... is shown only for a plan with a checkout in progress.
C12_LoadingHasCheckout ==
    /\ loading \in {Null} \cup {Some(id) : id \in PaidIds}
    /\ loading # Some(free)
    /\ \A id \in PlanIds : loading = Some(id) => Unfinished(id) # {}

C12_Witness ==
    /\ loading = Some(student_monthly)
    /\ Cardinality(Unfinished(student_monthly)) = 2
    /\ Unfinished(family_monthly) # {}
    /\ freeClicks = 0

\* C13: the steps of one paid click come in order.  The click sets loading
\* to p and issues the call in one synchronous step; the invocation then
\* goes await -> done (resolved) or await -> alert -> done (rejected), the
\* alert opening at the rejection and closing at the dismissal; loading is
\* cleared in the step that finishes an invocation and in no other step, so
\* never before the call has settled nor while its alert is showing.
C13_StepOrder ==
    [][/\ \A i \in DOMAIN inv' \ DOMAIN inv :
             /\ inv'[i].pc = "await"
             /\ loading' = inv'[i].planId
             /\ callCount' = callCount + 1
             /\ lastCall' # Null
             /\ lastCall'[1].planId = inv'[i].planId[1]
       /\ \A i \in DOMAIN inv :
             /\ inv[i].pc = "await" =>
                   \/ inv'[i] = inv[i]
                   \/ inv'[i].pc = "done" /\ inv'[i].outcome = "resolved"
                   \/ /\ inv'[i].pc = "alert"
                      /\ inv'[i].outcome = "rejected"
                      /\ alertOpen' = i
                      /\ alerts' = alerts + 1
                      /\ loading' = loading
             /\ inv[i].pc = "alert" =>
                   \/ inv'[i] = inv[i] /\ alertOpen' = i /\ loading' = loading
                   \/ /\ inv'[i].pc = "done"
                      /\ inv'[i].outcome = "rejected"
                      /\ alertOpen = i
                      /\ alertOpen' = 0
             /\ inv[i].pc = "done" => inv'[i] = inv[i]
             /\ (inv[i].pc # "done" /\ inv'[i].pc = "done") => loading' = Null
       /\ (loading # Null /\ loading' = Null) =>
             \E i \in DOMAIN inv : inv[i].pc # "done" /\ inv'[i].pc = "done"]_vars

C13_Witness ==
    /\ \E i \in DOMAIN inv : inv[i].pc = "alert" /\ loading = inv[i].planId
    /\ \E i \in DOMAIN inv : inv[i].pc = "done" /\ inv[i].outcome = "rejected"

\* C14: every redirectToCheckout invocation is made by a click on the button
\* of the plan it names, and that plan is a paid plan of filteredPlans for the
\* billing interval selected at the click: never free, never a plan of the
\* interval not displayed.
C14_CallNamesClickedShownPlan ==
    [][callCount' # callCount =>
          /\ callCount' = callCount + 1
          /\ paidClicks' = paidClicks + 1
          /\ lastCall' # Null
          /\ lastCall'[1].planId # free
          /\ lastCall'[1].planId \in PaidIds
          /\ lastCall'[1].planId \in IdSet(filteredPlans)
          /\ HasSuffix(lastCall'[1].planId, IntervalWord(billingInterval))
          /\ ClickSubscribe(lastCall'[1].planId)]_vars

C14_Witness ==
    /\ callCount = 2
    /\ lastCall = Some([planId |-> family_yearly, userId |-> UserId(now)])
    /\ billingInterval = "month"
    /\ freeClicks = 1

\* C15: the id filter agrees with the interval field.  For each billing
\* interval b a paid plan is kept by the filter iff its interval field is b;
\* every shown paid plan carries the suffix of the selected interval and the
\* free plan is the only shown plan without one.
C15_FilterAgreesWithInterval ==
    /\ \A b \in {"month", "year"} : \A p \in Range(plans) :
          p.id # free => (p \in Range(FilterPlans(plans, b)) <=> p.interval = Some(b))
    /\ \A p \in Range(filteredPlans) :
          /\ p.id # free => p.interval = Some(billingInterval)
          /\ p.interval = Null <=> p.id = free

C15_Witness ==
    /\ billingInterval = "year"
    /\ {p.interval : p \in Range(filteredPlans)} = {Null, Some("year")}
    /\ loading = Some(family_yearly)

\* the ids of a plan list, in its order
IdSeq(ps) == [i \in 1..Len(ps) |-> ps[i].id]

\* C16: filteredPlans always has three entries with pairwise distinct ids, in
\* the order of the plans array: free, then the Student plan, then the Family
\* plan of the selected interval.
C16_ThreePlansInOrder ==
    /\ Len(filteredPlans) = 3
    /\ Cardinality(IdSet(filteredPlans)) = 3
    /\ IdSeq(filteredPlans)
         = IF billingInterval = "month"
           THEN <<free, student_monthly, family_monthly>>
           ELSE <<free, student_yearly, family_yearly>>
    /\ <<filteredPlans[1].name, filteredPlans[2].name, filteredPlans[3].name>>
         \in {<<"Free", "Student", "Family">>,
              <<"Free", "Student Annual", "Family Annual">>}

C16_Witness ==
    /\ billingInterval = "year"
    /\ IdSeq(filteredPlans) = <<free, student_yearly, family_yearly>>
    /\ alertOpen # 0

\* C17: billingInterval and loading are independent.  A step that changes
\* billingInterval is a click on Monthly or Annual, sets it to that button's
\* interval and leaves loading, the invocations and the calls as they were; a
\* step that changes loading, an invocation, the calls or the alert state
\* leaves billingInterval as it was; filteredPlans changes only with
\* billingInterval.
C17_IntervalAndLoadingIndependent ==
    [][/\ billingInterval' # billingInterval =>
             /\ \E b \in {"month", "year"} : ClickBilling(b) /\ billingInterval' = b
             /\ UNCHANGED <<loading, inv, callCount, lastCall, alerts, alertOpen,
                            href, plans>>
       /\ (\E b \in {"month", "year"} : ClickBilling(b)) =>
             UNCHANGED <<loading, inv, callCount, lastCall, alerts, alertOpen>>
       /\ <<loading, inv, callCount, lastCall, alerts, alertOpen, href>>'
             # <<loading, inv, callCount, lastCall, alerts, alertOpen, href>>
             => billingInterval' = billingInterval
       /\ billingInterval' = billingInterval => filteredPlans' = filteredPlans
       /\ filteredPlans' = FilterPlans(PlansLiteral, billingInterval')]_vars

C17_Witness ==
    /\ billingInterval = "year"
    /\ loading = Some(student_monthly)
    /\ \E i \in DOMAIN inv : inv[i].pc = "await" /\ inv[i].planId = Some(student_monthly)

\* C18: the user id passed to redirectToCheckout is user_ followed by the
\* clock value at the call and nothing else; ids of different clock values
\* differ; the clock values in the ids of successive calls never decrease.
C18_UserIdFromClock ==
    [][callCount' # callCount =>
          /\ lastCall' # Null
          /\ lastCall'[1].userId = <<"user_", now>>
          /\ lastCall # Null => lastCall[1].userId[2] <= lastCall'[1].userId[2]
          /\ \A t1, t2 \in 0..MaxClock : t1 # t2 => UserId(t1) # UserId(t2)]_vars

C18_Witness ==
    /\ callCount = 2
    /\ now = 1
    /\ lastCall = Some([planId |-> student_yearly, userId |-> <<"user_", 1>>])

\* reading of a label such as "Save $20/year": the digits after the $
DigitChars == <<"0","1","2","3","4","5","6","7","8","9">>
DigitValue(c) == (CHOOSE k \in 1..10 : DigitChars[k] = c) - 1

RECURSIVE ParseDigits(_, _)
ParseDigits(q, acc) ==
    IF q = <<>> \/ Head(q) \notin Range(DigitChars) THEN acc
    ELSE ParseDigits(Tail(q), acc * 10 + DigitValue(Head(q)))

DollarAmount(label) ==
    LET k == CHOOSE i \in 1..Len(label) : label[i] = "$"
    IN  ParseDigits(SubSeq(label, k + 1, Len(label)), 0)

\* the tier of a paid plan: its id up to the underscore
Tier(id) ==
    LET k == CHOOSE i \in 1..Len(id) : id[i] = "_"
    IN  SubSeq(id, 1, k - 1)

\* cents rounded to the nearest dollar
RoundToDollar(cents) == (cents + 50) \div 100

\* C19: for each paid tier the annual plan costs less than twelve monthly
\* payments, and the difference rounded to the nearest dollar is the amount
\* of the annual plan's savings label: 20 for Student Annual, 40 for Family
\* Annual.
C19_AnnualSavings ==
    /\ \A m, y \in Range(plans) :
          (m.interval = Some("month") /\ y.interval = Some("year")
              /\ Tier(m.id) = Tier(y.id)) =>
             /\ y.price < 12 * m.price
             /\ y.savings # Null
             /\ RoundToDollar(12 * m.price - y.price) = DollarAmount(y.savings[1])
    /\ {<<y.name, DollarAmount(y.savings[1])>> :
           y \in {q \in Range(plans) : q.interval = Some("year")}}
         = {<<"Student Annual", 20>>, <<"Family Annual", 40>>}
    /\ {Tier(q.id) : q \in {q \in Range(plans) : q.interval = Some("month")}}
         = {Tier(q.id) : q \in {q \in Range(plans) : q.interval = Some("year")}}

C19_Witness ==
    /\ billingInterval = "year"
    /\ {p.savings : p \in Range(filteredPlans)} = {Null, Some(save20), Some(save40)}
    /\ freeClicks = 1
    /\ paidClicks = 0

====
